---- MODULE Spec2Model ----
(***************************************************************************)
(* A model of PDF-Downloader.py: one run of main() after another over a    *)
(* fixed source table.  A run reads the table, prunes the identifiers that *)
(* already have a file, caps the batch, downloads the batch with one       *)
(* thread per identifier under a concurrency cap, and then merges the      *)
(* outcome into the status report and the metadata table.                  *)
(***************************************************************************)
EXTENDS Integers, Sequences, FiniteSets, TLC

\* ------------------------------------------------------------ bounds
\* Rows of the source table (identifiers 1..NumReports, in table order).
NumReports == 5
\* Runs of the program modelled one after another.
MaxRuns == 2

\* ------------------------------------------------- program constants
\* MAX_DOWNLOADS and MAX_CONCURRENT_THREADS are 10 and 5 in the source; the
\* model keeps their order (cap > threads, table > cap) at a size TLC covers.
MAX_DOWNLOADS == 3
MAX_CONCURRENT_THREADS == 2

VARIABLES
    pc,                 \* position of main()
    run,                \* number of the current run
    downloadDir,        \* DOWNLOAD_DIR exists
    outputDir,          \* OUTPUT_DIR exists
    files,              \* os.path.exists(DOWNLOAD_DIR/<id>.pdf), by identifier
    statusFile,         \* OUTPUT_DIR/Download_Status.xlsx
    metaFile,           \* METADATA_PATH
    backupFile,         \* OUTPUT_DIR/Metadata2006_2016_Backup.xlsx
    existing_downloads, \* main: result of get_existing_downloads()
    download_queue,     \* main: the pruned, capped queue (identifiers in order)
    download_errors,    \* main: the list shared by the download threads
    threads,            \* download_pdfs: the threads started, in order
    unit,               \* position of each identifier's download_file thread
    url,                \* download_file: the column the thread fetched from
    success,            \* download_file: its local flag
    prevStatus,         \* history: statusFile when the run started
    prevMeta            \* history: metaFile when the run started

vars == <<pc, run, downloadDir, outputDir, files, statusFile, metaFile,
          backupFile, existing_downloads, download_queue, download_errors,
          threads, unit, url, success, prevStatus, prevMeta>>

Reports == 1..NumReports

\* ------------------------------------------------------ source table
\* The rows of the reports spreadsheet: which URL columns are non-null.
HasPdfUrl(i) == i % 2 = 1
HasHtmlUrl(i) == (i % 4) \in {1, 2}

\* ------------------------------------------------------------ helpers
Range(s) == {s[k] : k \in 1..Len(s)}

RECURSIVE SeqOfSet(_)
\* The elements of a set of integers as an ascending sequence.
SeqOfSet(S) ==
    IF S = {} THEN <<>>
    ELSE LET m == CHOOSE x \in S : \A y \in S : x <= y
         IN <<m>> \o SeqOfSet(S \ {m})

\* The rows of a table at the given positions, in table order.
Pick(rows, idx) ==
    LET order == SeqOfSet(idx)
    IN [k \in 1..Len(order) |-> rows[order[k]]]

\* ------------------------------------------------------ spreadsheets
\* A cell value is a record: a message of a kind, about an identifier.
Empty == [kind |-> "", id |-> 0]
NaN == [kind |-> "NaN", id |-> 0]
Blank == [kind |-> "blank cell", id |-> 0]
FileNotFound == [kind |-> "File not found", id |-> 0]

\* DataFrame.to_excel writes "" and NaN as a blank cell; read_excel reads a
\* blank cell back as NaN.
ToCell(v) == IF v \in {Empty, NaN} THEN Blank ELSE v
FromCell(c) == IF c = Blank THEN NaN ELSE c

Absent == [state |-> "absent", rows |-> <<>>]
Unreadable == [state |-> "unreadable", rows |-> <<>>]
Table(rows) == [state |-> "ok", rows |-> rows]

StatusRow(i, status, msg) == [id |-> i, status |-> status, msg |-> msg]
MetaRow(i, flag) == [id |-> i, pdf_downloaded |-> flag]

ToExcelStatus(df) ==
    Table([k \in 1..Len(df) |-> StatusRow(df[k].id, df[k].status, ToCell(df[k].msg))])
ReadExcelStatus(file) ==
    [k \in 1..Len(file.rows) |->
        StatusRow(file.rows[k].id, file.rows[k].status, FromCell(file.rows[k].msg))]

\* A deduplication left out, and one that keeps the first row instead.
DropDuplicatesNot(rows) == rows
DropDuplicatesFirst(rows) ==
    Pick(rows, {k \in 1..Len(rows) : \A j \in 1..(k - 1) : rows[j].id # rows[k].id})

\* DataFrame.drop_duplicates(subset=[id], keep="last"): a row stays when no
\* later row has its identifier; the rows that stay keep their order.
KeptLast(rows) ==
    {k \in 1..Len(rows) : \A j \in (k + 1)..Len(rows) : rows[j].id # rows[k].id}
DropDuplicates(rows) == Pick(rows, KeptLast(rows))


\* ------------------------------------------------------------- main()
\* reports_data after the valid-URL filter: the identifiers, in table order.
ValidUrl(i) == HasPdfUrl(i) \/ HasHtmlUrl(i)
ReportsData == SeqOfSet({i \in Reports : ValidUrl(i)})

\* get_existing_downloads(): the identifiers of the *.pdf files present.
GetExistingDownloads == {i \in Reports : files[i]}

\* A queue that keeps the identifiers already downloaded.
ToDownloadUnpruned(existing) == ReportsData

\* A filter with its test negated: the identifiers already downloaded.
ToDownloadExisting(existing) == SeqOfSet({i \in Range(ReportsData) : i \in existing})

\* to_download: the queue without the identifiers already downloaded.
ToDownload(existing) == SeqOfSet({i \in Range(ReportsData) : i \notin existing})

\* DataFrame.head(n)
HeadRows(q, n) == SubSeq(q, 1, IF n < Len(q) THEN n ELSE Len(q))

\* A batch that is not limited.
LimitBatchUnlimited(q) == q

\* The batch limit of main().
LimitBatch(q) == IF Len(q) > MAX_DOWNLOADS THEN HeadRows(q, MAX_DOWNLOADS) ELSE q

\* main() from reading the source table to the call of download_pdfs.
MainStart ==
    /\ pc = "start"
    /\ \E readOk \in BOOLEAN :
         IF readOk
         THEN /\ existing_downloads' = GetExistingDownloads
              /\ download_queue' = LimitBatch(ToDownload(existing_downloads'))
              /\ download_errors' = <<>>
              /\ pc' = IF Len(download_queue') > 0 THEN "download_pdfs" ELSE "report"
         ELSE /\ pc' = "aborted"
              /\ UNCHANGED <<existing_downloads, download_queue, download_errors>>
    /\ UNCHANGED <<run, downloadDir, outputDir, files, statusFile, metaFile,
                   backupFile, threads, unit, url, success, prevStatus, prevMeta>>

\* ------------------------------------------------------ download_pdfs
\* The two os.makedirs calls and the empty thread list.  A directory that
\* exists is left alone; creating a missing one may fail, and the exception
\* leaves main().
MakeDirs ==
    /\ pc = "download_pdfs"
    /\ \/ /\ downloadDir' = TRUE
          /\ outputDir' = TRUE
          /\ threads' = <<>>
          /\ pc' = "for"
       \/ /\ ~downloadDir
          /\ pc' = "crashed"
          /\ UNCHANGED <<downloadDir, outputDir, threads>>
       \/ /\ ~outputDir
          /\ downloadDir' = TRUE
          /\ pc' = "crashed"
          /\ UNCHANGED <<outputDir, threads>>
    /\ UNCHANGED <<run, files, statusFile, metaFile, backupFile,
                   existing_downloads, download_queue, download_errors,
                   unit, url, success, prevStatus, prevMeta>>

\* t.is_alive(): the thread was started and has not finished.
IsAlive(i) == unit[i] \notin {"new", "done"}
ActiveThreads == Cardinality({i \in Range(threads) : IsAlive(i)})

\* A wait-for-a-slot condition that lets one thread too many in.
SlotsFullOffByOne == ActiveThreads > MAX_CONCURRENT_THREADS

\* The wait-for-a-slot condition of a limit of no thread at all.
SlotsFullZero == ActiveThreads >= 0

\* The condition of the wait-for-a-slot loop.
SlotsFull == ActiveThreads >= MAX_CONCURRENT_THREADS

\* A final wait that is left while one thread is still alive.
AllFinishedButOne == ~(ActiveThreads > 1)

\* The condition under which the final wait loop is left.
AllFinished == ~(ActiveThreads > 0)

\* A loop whose threads are all given the first row of the queue.
NextRowFirst == download_queue[1]

\* A loop that goes through the queue from its last row to its first.
NextRowReversed == download_queue[Len(download_queue) - Len(threads)]

\* The row of the current iteration of the for loop.
NextRow == download_queue[Len(threads) + 1]

\* One iteration of the for loop up to the wait loop: the thread of the next
\* row is created, appended and started.
StartThread ==
    /\ pc = "for"
    /\ Len(threads) < Len(download_queue)
    /\ LET i == NextRow
       IN /\ threads' = Append(threads, i)
          /\ unit' = [unit EXCEPT ![i] = "fetch"]
    /\ pc' = "while"
    /\ UNCHANGED <<run, downloadDir, outputDir, files, statusFile, metaFile,
                   backupFile, existing_downloads, download_queue,
                   download_errors, url, success, prevStatus, prevMeta>>

\* The for loop is exhausted.
ForExit ==
    /\ pc = "for"
    /\ Len(threads) = Len(download_queue)
    /\ pc' = "join"
    /\ UNCHANGED <<run, downloadDir, outputDir, files, statusFile, metaFile,
                   backupFile, existing_downloads, download_queue,
                   download_errors, threads, unit, url, success, prevStatus,
                   prevMeta>>

\* One test of the wait-for-a-slot loop: sleep and test again, or go on.
WaitSlot ==
    /\ pc = "while"
    /\ pc' = IF SlotsFull THEN "while" ELSE "for"
    /\ UNCHANGED <<run, downloadDir, outputDir, files, statusFile, metaFile,
                   backupFile, existing_downloads, download_queue,
                   download_errors, threads, unit, url, success, prevStatus,
                   prevMeta>>

\* One test of the final wait loop: sleep and test again, or return.
Join ==
    /\ pc = "join"
    /\ pc' = IF AllFinished THEN "report" ELSE "join"
    /\ UNCHANGED <<run, downloadDir, outputDir, files, statusFile, metaFile,
                   backupFile, existing_downloads, download_queue,
                   download_errors, threads, unit, url, success, prevStatus,
                   prevMeta>>

\* ------------------------------------------------------ download_file
IndexEntry(i) == [kind |-> "index", id |-> i]
NetworkError(i) == [kind |-> "Network error", id |-> i]
UnexpectedError(i) == [kind |-> "Unexpected error", id |-> i]

\* A thread that prefers the HTML address when there is one.
ChooseUrlHtmlFirst(i) == IF HasHtmlUrl(i) THEN "Report Html Address" ELSE "Pdf_URL"

\* The URL column the thread reads.
ChooseUrl(i) == IF HasPdfUrl(i) THEN "Pdf_URL" ELSE "Report Html Address"

\* An except branch that does not record the identifier.
AppendedIndexDropped(errors, i) == errors

\* download_errors.append(index)
AppendedIndex(errors, i) == Append(errors, IndexEntry(i))

\* The try block and the first statement of the except branch it ends in.
\* requests.get or raise_for_status raises a RequestException and the
\* identifier is appended; or the file is opened and written in full and
\* success is set; or the file is opened, f.write raises (an OSError), the
\* file stays under its name, empty or cut short, and the identifier is
\* appended.  The program only ever asks whether a file exists.
TryDownload(i) ==
    /\ unit[i] = "fetch"
    /\ url' = [url EXCEPT ![i] = ChooseUrl(i)]
    /\ \/ /\ download_errors' = AppendedIndex(download_errors, i)
          /\ unit' = [unit EXCEPT ![i] = "network_message"]
          /\ UNCHANGED <<files, success>>
       \/ /\ files' = [files EXCEPT ![i] = TRUE]
          /\ success' = [success EXCEPT ![i] = TRUE]
          /\ unit' = [unit EXCEPT ![i] = "done"]
          /\ UNCHANGED download_errors
       \/ /\ files' = [files EXCEPT ![i] = TRUE]
          /\ download_errors' = AppendedIndex(download_errors, i)
          /\ unit' = [unit EXCEPT ![i] = "unexpected_message"]
          /\ UNCHANGED success
    /\ UNCHANGED <<pc, run, downloadDir, outputDir, statusFile, metaFile,
                   backupFile, existing_downloads, download_queue,
                   threads, prevStatus, prevMeta>>

\* The message an except branch builds.
ErrorMessage(i) ==
    IF unit[i] = "network_message" THEN NetworkError(i) ELSE UnexpectedError(i)

\* download_errors.append(error_message) of either except branch; the
\* thread ends.
AppendMessage(i) ==
    /\ unit[i] \in {"network_message", "unexpected_message"}
    /\ download_errors' = Append(download_errors, ErrorMessage(i))
    /\ unit' = [unit EXCEPT ![i] = "done"]
    /\ UNCHANGED <<pc, run, downloadDir, outputDir, files, statusFile,
                   metaFile, backupFile, existing_downloads, download_queue,
                   threads, url, success, prevStatus, prevMeta>>

\* The download_file thread of identifier i.
DownloadFile(i) == TryDownload(i) \/ AppendMessage(i)

\* ----------------------------------------------- create_output_report
\* i in download_errors, and download_errors.index(i)
InErrors(errors, i) == \E k \in 1..Len(errors) : errors[k] = IndexEntry(i)
ErrorIndex(errors, i) ==
    CHOOSE k \in 1..Len(errors) :
        /\ errors[k] = IndexEntry(i)
        /\ \A j \in 1..(k - 1) : errors[j] # IndexEntry(i)

\* str(x) of a list element: a message is itself, an identifier is its text.
Str(x) == IF x.kind = "index" THEN [kind |-> "str(index)", id |-> x.id] ELSE x

\* The error message looked up for a row without a file.
ErrorMsg(errors, i) ==
    IF InErrors(errors, i)
    THEN IF ErrorIndex(errors, i) + 1 <= Len(errors)
         THEN Str(errors[ErrorIndex(errors, i) + 1])
         ELSE Empty
    ELSE FileNotFound

\* The row computed for one identifier of the queue.
OutputRow(errors, f, i) ==
    IF f[i]
    THEN StatusRow(i, "Downloaded", Empty)
    ELSE StatusRow(i, "Failed", ErrorMsg(errors, i))

\* new_output_df
NewOutput(queue, errors, f) ==
    [k \in 1..Len(queue) |-> OutputRow(errors, f, queue[k])]

\* The existing report followed by the new rows, duplicates and all.
MergeStatusAppend(file, new) ==
    IF file.state = "ok" THEN ReadExcelStatus(file) \o new ELSE new

\* output_df: the existing report, when it can be read, followed by the new
\* rows, without duplicates; the new rows alone otherwise.
MergeStatus(file, new) ==
    IF file.state = "ok"
    THEN DropDuplicates(ReadExcelStatus(file) \o new)
    ELSE new

\* The file create_output_report leaves behind.
OutputReport(file, queue, errors, f) ==
    ToExcelStatus(MergeStatus(file, NewOutput(queue, errors, f)))

\* create_output_report: to_excel raises when OUTPUT_DIR does not exist, and
\* the exception leaves main().
CreateOutputReport ==
    /\ pc = "report"
    /\ IF outputDir
       THEN /\ statusFile' = OutputReport(statusFile, download_queue,
                                          download_errors, files)
            /\ pc' = "metadata"
       ELSE /\ pc' = "crashed"
            /\ UNCHANGED statusFile
    /\ UNCHANGED <<run, downloadDir, outputDir, files, metaFile, backupFile,
                   existing_downloads, download_queue, download_errors,
                   threads, unit, url, success, prevStatus, prevMeta>>

\* ---------------------------------------------------- update_metadata
\* metadata_df: the table read, or the empty one when there is no file.
MetadataDf(file) == IF file.state = "ok" THEN file.rows ELSE <<>>

\* new_records: one per identifier of the queue, by the files present.
NewRecords(queue, f) ==
    [k \in 1..Len(queue) |->
        MetaRow(queue[k], IF f[queue[k]] THEN "Yes" ELSE "No")]

\* updated_metadata
MergeMetadata(file, new) == DropDuplicates(MetadataDf(file) \o new)

\* The file update_metadata leaves behind.
UpdatedMetadata(file, queue, f) == Table(MergeMetadata(file, NewRecords(queue, f)))

\* update_metadata: read_excel of a file that cannot be read raises, and
\* the exception leaves main(); otherwise the backup and the merged table
\* are written.
UpdateMetadata ==
    /\ pc = "metadata"
    /\ IF metaFile.state = "unreadable"
       THEN /\ pc' = "crashed"
            /\ UNCHANGED <<metaFile, backupFile>>
       ELSE /\ backupFile' = Table(MetadataDf(metaFile))
            /\ metaFile' = UpdatedMetadata(metaFile, download_queue, files)
            /\ pc' = "upload"
    /\ UNCHANGED <<run, downloadDir, outputDir, files, statusFile,
                   existing_downloads, download_queue, download_errors,
                   threads, unit, url, success, prevStatus, prevMeta>>

\* upload_to_drive returns whatever the upload does; main() ends.
UploadToDrive ==
    /\ pc = "upload"
    /\ pc' = "end"
    /\ UNCHANGED <<run, downloadDir, outputDir, files, statusFile, metaFile,
                   backupFile, existing_downloads, download_queue,
                   download_errors, threads, unit, url, success, prevStatus,
                   prevMeta>>

\* ------------------------------------------------------ the next run
\* The program is run again: a new process, with what is on disk.
NextRun ==
    /\ pc \in {"end", "aborted", "crashed"}
    /\ run < MaxRuns
    /\ run' = run + 1
    /\ pc' = "start"
    /\ existing_downloads' = {}
    /\ download_queue' = <<>>
    /\ download_errors' = <<>>
    /\ threads' = <<>>
    /\ unit' = [i \in Reports |-> "new"]
    /\ url' = [i \in Reports |-> "none"]
    /\ success' = [i \in Reports |-> FALSE]
    /\ prevStatus' = statusFile
    /\ prevMeta' = metaFile
    /\ UNCHANGED <<downloadDir, outputDir, files, statusFile, metaFile, backupFile>>

\* The program is run again and again: NextRun without the count of runs.
RunAgain ==
    /\ pc \in {"end", "aborted", "crashed"}
    /\ pc' = "start"
    /\ existing_downloads' = {}
    /\ download_queue' = <<>>
    /\ download_errors' = <<>>
    /\ threads' = <<>>
    /\ unit' = [i \in Reports |-> "new"]
    /\ url' = [i \in Reports |-> "none"]
    /\ success' = [i \in Reports |-> FALSE]
    /\ prevStatus' = statusFile
    /\ prevMeta' = metaFile
    /\ UNCHANGED <<run, downloadDir, outputDir, files, statusFile, metaFile,
                   backupFile>>

\* ------------------------------------------------------ initial state
\* What is on disk before the first run: nothing at all, or what earlier
\* use left behind (downloads, a status report, a metadata table, readable
\* or not).  Files are there only in a directory that exists.
PriorStatus ==
    Table(<<StatusRow(1, "Failed", [kind |-> "Network error", id |-> 1]),
            StatusRow(NumReports, "Failed", FileNotFound)>>)
PriorMetadata == Table(<<MetaRow(1, "No"), MetaRow(NumReports, "No")>>)
Disk(dl, out, d, st, md) ==
    [downloadDir |-> dl, outputDir |-> out, downloads |-> d, status |-> st,
     metadata |-> md]
InitialDisks ==
    { Disk(FALSE, TRUE, {}, PriorStatus, PriorMetadata),
      Disk(TRUE, FALSE, Reports \ {NumReports}, Absent, Absent),
      Disk(TRUE, FALSE, Reports, Absent, Absent),
      Disk(TRUE, TRUE, Reports, PriorStatus, Unreadable),
      Disk(TRUE, TRUE, Reports, Unreadable, Absent) }

Init ==
    /\ pc = "start"
    /\ run = 1
    /\ \E disk \in InitialDisks :
         /\ downloadDir = disk.downloadDir
         /\ outputDir = disk.outputDir
         /\ files = [i \in Reports |-> i \in disk.downloads]
         /\ statusFile = disk.status
         /\ metaFile = disk.metadata
    /\ backupFile = Absent
    /\ existing_downloads = {}
    /\ download_queue = <<>>
    /\ download_errors = <<>>
    /\ threads = <<>>
    /\ unit = [i \in Reports |-> "new"]
    /\ url = [i \in Reports |-> "none"]
    /\ success = [i \in Reports |-> FALSE]
    /\ prevStatus = statusFile
    /\ prevMeta = metaFile

Next ==
    \/ MainStart
    \/ MakeDirs
    \/ StartThread
    \/ ForExit
    \/ WaitSlot
    \/ Join
    \/ \E i \in Reports : DownloadFile(i)
    \/ CreateOutputReport
    \/ UpdateMetadata
    \/ UploadToDrive
    \/ NextRun

Spec == Init /\ [][Next]_vars

\* One run of the program under its scheduling: the main thread goes on
\* through its loops (each test of a wait loop is followed by a sleep of
\* 0.5 s and the next test), and a started thread goes on to its end
\* (requests.get returns or raises within its timeout).
OneRun ==
    \/ MainStart
    \/ MakeDirs
    \/ StartThread
    \/ ForExit
    \/ WaitSlot
    \/ Join
    \/ \E i \in Reports : DownloadFile(i)
    \/ CreateOutputReport
    \/ UpdateMetadata
    \/ UploadToDrive
FairSpec ==
    /\ Init /\ [][OneRun]_vars
    /\ WF_vars(StartThread) /\ WF_vars(ForExit)
    /\ WF_vars(WaitSlot) /\ WF_vars(Join)
    /\ \A i \in Reports : WF_vars(DownloadFile(i))

\* The program run without end against the same source table, in the
\* environment the claim on repeated runs names: the source table is read
\* and the directories are made in every run, and every request fails
\* (requests.get or raise_for_status raises).
ReadSource == MainStart /\ pc' # "aborted"
DirsMade == MakeDirs /\ pc' = "for"
RequestFails(i) == TryDownload(i) /\ unit'[i] = "network_message"
FailingThread(i) == RequestFails(i) \/ AppendMessage(i)
\* The steps of main() between its computations: the loops of
\* download_pdfs, the upload, and the start of the next run.
MainLoops ==
    \/ DirsMade
    \/ StartThread
    \/ ForExit
    \/ WaitSlot
    \/ Join
    \/ UploadToDrive
    \/ RunAgain
NextRepeated ==
    \/ ReadSource
    \/ MainLoops
    \/ \E i \in Reports : FailingThread(i)
    \/ CreateOutputReport
    \/ UpdateMetadata

\* The main thread goes on while it has a step to take (each test of a wait
\* loop is followed by a sleep and the next test; a run that has ended is
\* followed by another), and so does every started thread.  The reading of
\* the source table and the two reconcilers are computations that end:
\* main() is at none of them forever (their steps are enabled whenever
\* main() is there, so this is their weak fairness).
RepeatSpec ==
    /\ Init /\ [][NextRepeated]_vars
    /\ WF_vars(MainLoops)
    /\ \A i \in Reports : WF_vars(FailingThread(i))
    /\ []<>(pc \notin {"start", "report", "metadata"})

\* ------------------------------------------------------------ properties
\* download_pdfs has returned, or was not called for an empty queue.
Returned == pc \in {"report", "metadata", "upload", "end"}
\* create_output_report has written the status report of this run.
Reported == pc \in {"metadata", "upload", "end"}
\* update_metadata has written the metadata table of this run.
Updated == pc \in {"upload", "end"}

\* The rows a table holds for an identifier, and the identifiers it holds.
RowsOf(file, i) == Pick(file.rows, {k \in 1..Len(file.rows) : file.rows[k].id = i})
IdsOf(file) == {file.rows[k].id : k \in 1..Len(file.rows)}
\* The identifiers with a usable URL: the work items of a run.
WorkItems == Range(ReportsData)
\* The units that ended in failure, and the message each one built.
Failed(i) == unit[i] = "done" /\ ~success[i]
MessagesOf(i) ==
    {k \in 1..Len(download_errors) :
        download_errors[k].id = i /\ download_errors[k].kind # "index"}
IndexesOf(i) ==
    {k \in 1..Len(download_errors) : download_errors[k] = IndexEntry(i)}
\* The pruned queue before the batch limit.
PrunedQueue == ToDownload(existing_downloads)

\* C1: once the status report is written, the message of every "Failed" row
\* of an identifier whose unit failed in this run is the message that unit
\* itself appended to download_errors.
C1_OwnCause ==
    Reported =>
        \A i \in Range(download_queue) : \A k \in 1..Len(statusFile.rows) :
            (Failed(i) /\ statusFile.rows[k].id = i
                       /\ statusFile.rows[k].status = "Failed")
            => \E m \in MessagesOf(i) : statusFile.rows[k].msg = download_errors[m]

\* C2: the units started and not yet finished are never more than
\* MAX_CONCURRENT_THREADS.
StartedUnfinished == {i \in Reports : unit[i] \notin {"new", "done"}}
C2_AtMostC == Cardinality(StartedUnfinished) <= MAX_CONCURRENT_THREADS
C2_Witness ==
    /\ pc = "while"
    /\ Cardinality(StartedUnfinished) = MAX_CONCURRENT_THREADS
    /\ Len(threads) < Len(download_queue)

\* C3: when download_pdfs has returned, every row of the queue was given
\* one thread, in queue order, and has one outcome: success with the file
\* written and nothing in download_errors, or failure with one identifier
\* entry and one message; download_errors holds nothing else.
C3_OneOutcomeEach ==
    Returned =>
        /\ threads = download_queue
        /\ \A i \in Range(download_queue) :
             \/ /\ success[i]
                /\ files[i]
                /\ IndexesOf(i) = {} /\ MessagesOf(i) = {}
             \/ /\ ~success[i]
                /\ Cardinality(IndexesOf(i)) = 1
                /\ Cardinality(MessagesOf(i)) = 1
        /\ \A k \in 1..Len(download_errors) :
             download_errors[k].id \in Range(download_queue)
        /\ Len(download_errors) =
             2 * Cardinality({i \in Range(download_queue) : ~success[i]})
C3_Witness ==
    /\ pc = "report"
    /\ Len(download_queue) = MAX_DOWNLOADS
    /\ \E i, j \in Range(download_queue) : success[i] /\ ~success[j]

\* C4: download_pdfs has returned, and the reconcilers run, only when no
\* thread is alive.
C4_ReturnsAfterAll == Returned => StartedUnfinished = {}
C4_Witness == pc = "report" /\ Len(threads) = MAX_DOWNLOADS

\* C5 as stated: an identifier of the source table with a file at the scan
\* is not dispatched and has a "Downloaded" row in the status report this
\* run writes.
C5_DownloadedRow ==
    Reported =>
        \A i \in existing_downloads \cap WorkItems :
            /\ i \notin Range(download_queue)
            /\ \E k \in 1..Len(statusFile.rows) :
                 statusFile.rows[k].id = i /\ statusFile.rows[k].status = "Downloaded"

\* C5 as amended: an identifier of the source table with a file at the scan
\* is not dispatched and the run computes no row for it: the status report
\* the run writes holds for it the rows of the previous report when that
\* could be read, and none otherwise.
C5_NoRowOfItsOwn ==
    Reported =>
        \A i \in existing_downloads \cap WorkItems :
            /\ i \notin Range(download_queue)
            /\ unit[i] = "new"
            /\ RowsOf(statusFile, i) =
                 IF prevStatus.state = "ok" THEN RowsOf(prevStatus, i) ELSE <<>>
C5_Witness ==
    /\ Reported
    /\ \E i \in existing_downloads \cap WorkItems : RowsOf(statusFile, i) = <<>>
    /\ \E i \in existing_downloads \cap WorkItems : RowsOf(statusFile, i) # <<>>

\* C6: a unit that ended in failure has left no file under the final name.
C6_NoFileOnFailure == \A i \in Reports : Failed(i) => ~files[i]

\* C7: the queue is the first min(n, MAX_DOWNLOADS) rows of the pruned
\* queue, threads are started for those rows only, and a row beyond the
\* limit has no thread, no file, no entry in download_errors and, in the
\* status report, the rows it had when the run started.
C7_BatchLimit ==
    pc \notin {"start", "aborted"} =>
        LET pruned == PrunedQueue
            n == Len(pruned)
            m == IF n < MAX_DOWNLOADS THEN n ELSE MAX_DOWNLOADS
        IN /\ download_queue = SubSeq(pruned, 1, m)
           /\ threads = SubSeq(pruned, 1, Len(threads))
           /\ Returned => threads = SubSeq(pruned, 1, m)
           /\ \A k \in (m + 1)..n :
                /\ unit[pruned[k]] = "new"
                /\ ~files[pruned[k]]
                /\ \A e \in 1..Len(download_errors) : download_errors[e].id # pruned[k]
                /\ RowsOf(statusFile, pruned[k]) = RowsOf(prevStatus, pruned[k])
C7_Witness ==
    /\ Reported
    /\ Len(PrunedQueue) > MAX_DOWNLOADS
    /\ RowsOf(prevStatus, PrunedQueue[MAX_DOWNLOADS + 1]) # <<>>


\* The rows this run computed, as the two reconcilers write them.
NewStatusRows == ToExcelStatus(NewOutput(download_queue, download_errors, files))
NewMetadataRows == Table(NewRecords(download_queue, files))
\* The table update_metadata started from: the file, or the empty table.
PrevMetadata == Table(MetadataDf(prevMeta))

\* C8: a table written by merging a previous table with this run's rows
\* holds the identifiers of both; an identifier of this run has this run's
\* row, and an identifier of the previous table alone keeps its rows.
MergedAsUnion(merged, prev, new) ==
    /\ IdsOf(merged) = IdsOf(prev) \cup IdsOf(new)
    /\ \A i \in IdsOf(new) : RowsOf(merged, i) = RowsOf(new, i)
    /\ \A i \in IdsOf(prev) \ IdsOf(new) : RowsOf(merged, i) = RowsOf(prev, i)
C8_MergeIsUnion ==
    /\ (Reported /\ prevStatus.state = "ok") =>
         LET new == NewStatusRows IN MergedAsUnion(statusFile, prevStatus, new)
    /\ Updated =>
         LET new == NewMetadataRows IN MergedAsUnion(metaFile, PrevMetadata, new)
\* Both previous tables hold an identifier this run leaves alone and one it
\* replaces, and the run adds one they did not hold.
C8_Witness ==
    /\ Updated
    /\ prevStatus.state = "ok"
    /\ \A prev \in {IdsOf(prevStatus), IdsOf(prevMeta)} :
         /\ prev \ Range(download_queue) # {}
         /\ prev \cap Range(download_queue) # {}
         /\ Range(download_queue) \ prev # {}

\* C9: run once more on the same queue, the same download_errors and the
\* same files, create_output_report writes the status report that is there,
\* and update_metadata the metadata table that is there, row for row.
C9_SecondRunSameTable ==
    /\ pc = "metadata" =>
         OutputReport(statusFile, download_queue, download_errors, files) = statusFile
    /\ pc = "upload" =>
         UpdatedMetadata(metaFile, download_queue, files) = metaFile
C9_Witness ==
    /\ pc = "upload"
    /\ Len(download_queue) > 1
    /\ Len(statusFile.rows) > Len(download_queue)
    /\ Len(metaFile.rows) > Len(download_queue)
    /\ \E i \in Range(download_queue) : ~success[i]

\* C10: the status report and the metadata table never hold two rows for
\* one identifier.
C10_OneRowPerId ==
    \A file \in {statusFile, metaFile} :
        \A j, k \in 1..Len(file.rows) : file.rows[j].id = file.rows[k].id => j = k
\* A later run has replaced the rows of an identifier it dispatched again,
\* in tables first written when there were none.
C10_Witness ==
    /\ Updated
    /\ run > 1
    /\ \E i \in Range(download_queue) :
         RowsOf(prevStatus, i) # <<>> /\ RowsOf(prevMeta, i) # <<>>
    /\ Len(statusFile.rows) = 1
    /\ Len(metaFile.rows) = 1

\* C11: update_metadata, started on a metadata file that is there and
\* cannot be read, goes on as if there were none: it writes the table of
\* this run's records alone and main() goes on to the upload.
C11_UnreadableAsAbsent ==
    [][(pc = "metadata" /\ metaFile.state = "unreadable")
        => /\ pc' = "upload"
           /\ metaFile' = UpdatedMetadata(Absent, download_queue, files)]_vars

\* The places of main() inside download_pdfs once the directories are made.
InLoops == pc \in {"for", "while", "join"}
\* The thread of i is in an except branch or has ended without success.
HasFailed(i) == unit[i] \in {"network_message", "unexpected_message"} \/ Failed(i)

\* C12: after every step, a unit that has failed has its identifier in
\* download_errors, and its message once it has ended; download_pdfs is
\* left only by returning to main(), whatever the units did; and when it
\* returns, a thread was started for every row of the queue and every
\* thread has ended.
C12_FailureStaysInUnit ==
    [][/\ \A i \in Reports :
            /\ HasFailed(i)' => IndexesOf(i)' # {}
            /\ Failed(i)' => MessagesOf(i)' # {}
       /\ InLoops => (InLoops' \/ pc' = "report")
       /\ (InLoops /\ pc' = "report") =>
            /\ threads' = download_queue
            /\ \A i \in Range(download_queue) : unit'[i] = "done"]_vars
\* download_pdfs has returned from a full queue in which the first unit
\* failed on the network, another failed on the write, and a later one
\* succeeded.
C12_Witness ==
    /\ pc = "report"
    /\ Len(download_queue) = MAX_DOWNLOADS
    /\ NetworkError(download_queue[1]) \in Range(download_errors)
    /\ \E j \in Range(download_queue) : UnexpectedError(j) \in Range(download_errors)
    /\ success[download_queue[MAX_DOWNLOADS]]

\* A step in which the run ends on an exception or an early return.
EndsEarly == pc \notin {"aborted", "crashed"} /\ pc' \in {"aborted", "crashed"}

\* C13: a run that ends early at the reading of the source table or at the
\* making of the directories has started no thread and leaves the status
\* report and the metadata table as they were when it started; and no run
\* ends early between the writing of the status report and the writing of
\* the metadata table.
C13_NoPartialReconciliation ==
    [][EndsEarly =>
        /\ pc \in {"start", "download_pdfs"} =>
             /\ threads' = <<>>
             /\ \A i \in Reports : unit'[i] = "new"
             /\ statusFile' = prevStatus /\ metaFile' = prevMeta
        /\ ~(Reported /\ ~Updated)]_vars

\* C14: a thread past its request has read Pdf_URL when the row has one and
\* Report Html Address exactly when it has none, and the column it read is
\* not null.
C14_UrlChoice ==
    \A i \in Reports :
        /\ unit[i] \notin {"new", "fetch"} => url[i] # "none"
        /\ url[i] # "none" =>
             /\ HasPdfUrl(i) => url[i] = "Pdf_URL"
             /\ url[i] = "Report Html Address" <=> ~HasPdfUrl(i)
             /\ url[i] = "Pdf_URL" => HasPdfUrl(i)
             /\ url[i] = "Report Html Address" => HasHtmlUrl(i)
\* The queue held a row with both addresses, one with the PDF address alone
\* and one with the HTML address alone, and all three were requested.
C14_Witness ==
    /\ \E i \in Reports : url[i] = "Pdf_URL" /\ HasHtmlUrl(i)
    /\ \E i \in Reports : url[i] = "Pdf_URL" /\ ~HasHtmlUrl(i)
    /\ \E i \in Reports : url[i] = "Report Html Address"

\* C15: when the main thread keeps stepping and every started thread goes
\* on to its end, download_pdfs, once past os.makedirs, returns: neither
\* wait loop is tested forever.
C15_DownloadPdfsReturns == InLoops ~> pc = "report"
\* download_pdfs has returned from a full queue in which every request
\* failed.
C15_Witness ==
    /\ pc = "report"
    /\ Len(threads) = MAX_DOWNLOADS
    /\ \A i \in Range(threads) : NetworkError(i) \in Range(download_errors)

\* C16: once the status report is written, the row of every identifier of
\* the queue is "Downloaded" with a blank message when its unit set success
\* (request answered, file written in full) and "Failed" when it did not;
\* an identifier with an entry in download_errors has no "Downloaded" row.
C16_DownloadedIffSuccess ==
    Reported =>
        \A i \in Range(download_queue) : \A k \in 1..Len(statusFile.rows) :
            statusFile.rows[k].id = i =>
                /\ success[i] <=>
                     /\ statusFile.rows[k].status = "Downloaded"
                     /\ statusFile.rows[k].msg = ToCell(Empty)
                /\ ~success[i] <=> statusFile.rows[k].status = "Failed"
                /\ IndexesOf(i) # {} => statusFile.rows[k].status # "Downloaded"

\* C17: the threads started so far are those of the first rows of the queue,
\* in queue order: when the thread of a row has been started, so has the
\* thread of every row before it, and it was started earlier.
C17_StartedInQueueOrder ==
    /\ Len(threads) <= Len(download_queue)
    /\ \A a \in 1..Len(threads) : threads[a] = download_queue[a]
    /\ \A a, b \in 1..Len(download_queue) :
         (a < b /\ unit[download_queue[b]] # "new")
         => unit[download_queue[a]] # "new"
\* A thread started later has ended while one started before it is still
\* at its request.
C17_Witness ==
    \E a, b \in 1..Len(threads) :
        /\ a < b
        /\ unit[threads[a]] = "fetch"
        /\ unit[threads[b]] = "done"

\* The identifiers whose file this run has opened for writing.
WrittenByRun == {i \in Reports : unit[i] \notin {"new", "fetch"} /\ files[i]}

\* C18: an identifier returned by get_existing_downloads is not in the
\* queue, no thread is started for it, nothing is requested for it, and its
\* file stays: the files the run writes are none of those found by the scan.
C18_ExistingUntouched ==
    /\ WrittenByRun \cap existing_downloads = {}
    /\ \A i \in existing_downloads :
         /\ i \notin Range(download_queue)
         /\ unit[i] = "new" /\ url[i] = "none"
         /\ files[i]
\* The scan found files of the source table, and the run has written
\* others.
C18_Witness ==
    /\ Returned
    /\ existing_downloads \cap WorkItems # {}
    /\ \E j \in WrittenByRun : success[j]

\* An identifier of the pruned queue that the batch limit left out of this
\* run, and an identifier for which a thread was started in this run.
LeftOut(i) ==
    /\ pc \notin {"start", "aborted"}
    /\ i \in Range(PrunedQueue) \ Range(download_queue)
Dispatched(i) == unit[i] # "new"

\* C19: over runs repeated without end, an identifier that the batch limit
\* left out of a run has a thread started for it in a later run, whatever
\* the requests of the rows before it do.
C19_LeftOutIsDispatchedLater ==
    \A i \in Reports : LeftOut(i) ~> Dispatched(i)

\* C20: whenever main() is at create_output_report or at update_metadata,
\* DOWNLOAD_DIR and OUTPUT_DIR exist, also in a run whose queue is empty.
C20_DirsBeforeReconcile ==
    pc \in {"report", "metadata"} => (downloadDir /\ outputDir)

====
